---- MODULE Spec2Model ----
(***************************************************************************)
(* The authorization pipeline of the coffee-shop backend:                  *)
(* backend/src/auth/auth.py (get_token_auth_header, verify_decode_jwt,     *)
(* check_permissions, requires_auth) and the AuthError handler of          *)
(* backend/src/api.py.                                                     *)
(*                                                                         *)
(* Strings the code splits or lowercases are sequences of one-character    *)
(* strings, so that split() and lower() are computed and not assumed.      *)
(***************************************************************************)
EXTENDS Integers, Sequences, FiniteSets, TLC

VARIABLES header, permission, jwt, pc, token, jwks, rsa_key, payload,
          exc, raised, invoked, response, stages

vars == <<header, permission, jwt, pc, token, jwks, rsa_key, payload,
          exc, raised, invoked, response, stages>>

----------------------------------------------------------------------------
(* Bounds *)

\* number of pieces (words and whitespace characters) an Authorization
\* header value is assembled from
MaxPieces == 5

\* length of the key sequence the JWKS endpoint returns
MaxKeys == 2

----------------------------------------------------------------------------
(* Module constants of auth.py *)

AUTH0_DOMAIN == "brunogarcia.eu.auth0.com"
ALGORITHMS == {"RS256"}
API_AUDIENCE == "coffe-shop"
BEARER == <<"b", "e", "a", "r", "e", "r">>
PERMISSIONS == "permissions"

\* 'https://' + AUTH0_DOMAIN + '/'
Issuer == "https://brunogarcia.eu.auth0.com/"

----------------------------------------------------------------------------
(* Python values *)

None == [kind |-> "None"]

\* AuthError(error, status_code) with error = {'code': .., 'description': ..}
AuthError(code, description, status_code) ==
    [kind |-> "AuthError",
     error |-> [code |-> code, description |-> description],
     status_code |-> status_code]

\* an exception of another class, raised by Python or by a library
Raw(cls) == [kind |-> cls]

Return(v) == [kind |-> "return", value |-> v]
Raise(e) == [kind |-> "raise", exc |-> e]

----------------------------------------------------------------------------
(* str.split() and str.lower() *)

\* A header value is a string of characters up to U+00FF (the WSGI server
\* decodes it as latin-1): the letters lower() changes, and what it makes of
\* them.
Upper == <<"A", "B", "C", "D", "E", "F", "G", "H", "I", "J", "K", "L", "M",
           "N", "O", "P", "Q", "R", "S", "T", "U", "V", "W", "X", "Y", "Z",
           "À", "Á", "Â", "Ã", "Ä", "Å", "Æ", "Ç", "È", "É", "Ê", "Ë", "Ì",
           "Í", "Î", "Ï", "Ð", "Ñ", "Ò", "Ó", "Ô", "Õ", "Ö", "Ø", "Ù", "Ú",
           "Û", "Ü", "Ý", "Þ">>
Lower == <<"a", "b", "c", "d", "e", "f", "g", "h", "i", "j", "k", "l", "m",
           "n", "o", "p", "q", "r", "s", "t", "u", "v", "w", "x", "y", "z",
           "à", "á", "â", "ã", "ä", "å", "æ", "ç", "è", "é", "ê", "ë", "ì",
           "í", "î", "ï", "ð", "ñ", "ò", "ó", "ô", "õ", "ö", "ø", "ù", "ú",
           "û", "ü", "ý", "þ">>

LowerChar(c) ==
    IF \E i \in DOMAIN Upper : Upper[i] = c
    THEN Lower[CHOOSE i \in DOMAIN Upper : Upper[i] = c]
    ELSE c

\* s.lower()
lower(s) == [i \in DOMAIN s |-> LowerChar(s[i])]

\* The characters split() separates words at, those for which isspace()
\* holds: U+0009..U+000D, U+001C..U+001F, U+0020, U+0085, U+00A0.
Whitespace == {"\t", "\n", "", "\f", "\r", "", "", "", "",
               " ", "", " "}

IsSpace(c) == c \in Whitespace

\* s.split(): the maximal runs of non-whitespace characters, in order.
\* cur is the run being read, out the runs already closed.
RECURSIVE SplitFrom(_, _, _, _)
SplitFrom(s, i, cur, out) ==
    IF i > Len(s)
    THEN IF cur = <<>> THEN out ELSE Append(out, cur)
    ELSE IF IsSpace(s[i])
         THEN SplitFrom(s, i + 1, <<>>,
                        IF cur = <<>> THEN out ELSE Append(out, cur))
         ELSE SplitFrom(s, i + 1, Append(cur, s[i]), out)

split(s) == SplitFrom(s, 1, <<>>, <<>>)

----------------------------------------------------------------------------
(* get_token_auth_header *)

\* The value of request.headers.get('Authorization', None): None, or a string.
Absent == None
Str(s) == [kind |-> "str", value |-> s]

get_token_auth_header(auth) ==
    IF auth = None \/ auth.value = <<>>                      \* if not auth
    THEN Raise(AuthError("authorization_header_missing",
                         "Authorization header is expected.", 401))
    ELSE LET parts == split(auth.value) IN
         \* parts[0] of an empty list raises IndexError
         IF parts = <<>> THEN Raise(Raw("IndexError"))
         ELSE IF lower(parts[1]) # BEARER
         THEN Raise(AuthError("invalid_header",
                 "Authorization header must start with \"Bearer\".", 401))
         ELSE IF Len(parts) = 1
         THEN Raise(AuthError("invalid_header", "Token not found.", 401))
         ELSE IF Len(parts) > 2
         THEN Raise(AuthError("invalid_header",
                 "Authorization header must be bearer token.", 401))
         ELSE Return(parts[2])

----------------------------------------------------------------------------
(* check_permissions *)

\* x in list
InList(x, list) == \E i \in DOMAIN list : list[i] = x

\* mutant: any permissions claim is accepted, whatever it lists
check_permissions_any(perm, pl) ==
    IF PERMISSIONS \notin DOMAIN pl
    THEN Raise(AuthError("invalid_claims",
                         "Permissions not included in JWT.", 400))
    ELSE Return(TRUE)

check_permissions(perm, pl) ==
    IF PERMISSIONS \notin DOMAIN pl
    THEN Raise(AuthError("invalid_claims",
                         "Permissions not included in JWT.", 400))
    ELSE IF ~InList(perm, pl[PERMISSIONS])
    THEN Raise(AuthError("unauthorized", "Permission not found.", 403))
    ELSE Return(TRUE)

----------------------------------------------------------------------------
(* Tokens and keys.  A token string stands for a JWT: whether its segments *)
(* decode at all, its header, the modulus of the key pair that signed it   *)
(* and its claims.                                                         *)

Kids == {"k1", "k2"}
Moduli == {"n1", "n2"}
Algs == {"RS256", "HS256"}

\* one entry of jwks['keys']
Key(kid, n) == [kty |-> "RSA", kid |-> kid, use |-> "sig", n |-> n, e |-> "AQAB"]
Keys == {Key(k, n) : k \in Kids, n \in Moduli}

RECURSIVE SeqsUpTo(_, _)
SeqsUpTo(S, n) ==
    IF n = 0 THEN {<<>>}
    ELSE LET shorter == SeqsUpTo(S, n - 1) IN
         shorter \cup {Append(q, x) : q \in shorter, x \in S}

KeySeqs == SeqsUpTo(Keys, MaxKeys)

\* what urlopen(...).read() and json.loads give: a fault, or the key set
FetchOutcomes ==
    {Raise(Raw("URLError")), Raise(Raw("JSONDecodeError"))}
        \cup {Return([keys |-> ks]) : ks \in KeySeqs}

WithKid(h, kid) == [x \in DOMAIN h \cup {"kid"} |-> IF x = "kid" THEN kid ELSE h[x]]
JwtHeaders == {[alg |-> a] : a \in Algs}
                  \cup {WithKid([alg |-> a], k) : a \in Algs, k \in Kids}

WithPermissions(c, perms) ==
    [x \in DOMAIN c \cup {PERMISSIONS} |-> IF x = PERMISSIONS THEN perms ELSE c[x]]

BaseClaims ==
    {[iss |-> i, aud |-> a, exp |-> e, nbf |-> n] :
        i \in {Issuer}, a \in {API_AUDIENCE, "other-api"},
        e \in {"past", "future"}, n \in {"past", "future"}}
    \cup {[iss |-> "https://evil.example/", aud |-> API_AUDIENCE, exp |-> e, nbf |-> n] :
        e \in {"past", "future"}, n \in {"past", "future"}}

PermissionLists == {<<"get:drinks-detail">>, <<"get:drinks-detail", "post:drinks">>}

ClaimSets == BaseClaims
                \cup {WithPermissions(c, p) : c \in BaseClaims, p \in PermissionLists}

Malformed == [wellformed |-> FALSE]
Jwt(h, n, c) == [wellformed |-> TRUE, header |-> h, signer |-> n, claims |-> c]
Jwts == {Malformed} \cup {Jwt(h, n, c) : h \in JwtHeaders, n \in Moduli, c \in ClaimSets}

----------------------------------------------------------------------------
(* jose.jwt, as verify_decode_jwt calls it *)

\* jwt.get_unverified_header(token)
get_unverified_header(tok) ==
    IF tok.wellformed THEN Return(tok.header) ELSE Raise(Raw("JWTError"))

\* the signature check of jwt.decode: the algorithm is an allowed one and the
\* signature was made by the private half of the key
SignatureVerifies(tok, key, algorithms) ==
    tok.header.alg \in algorithms /\ tok.signer = key.n

\* jwt.decode(token, key, algorithms=.., audience=.., issuer=..): signature
\* first, then the claims in the order nbf, exp, aud, iss
jwt_decode(tok, key, algorithms, audience, issuer) ==
    IF ~SignatureVerifies(tok, key, algorithms) THEN Raise(Raw("JWTError"))
    ELSE IF tok.claims.nbf = "future" THEN Raise(Raw("JWTClaimsError"))
    ELSE IF tok.claims.exp = "past" THEN Raise(Raw("ExpiredSignatureError"))
    ELSE IF tok.claims.aud # audience THEN Raise(Raw("JWTClaimsError"))
    ELSE IF tok.claims.iss # issuer THEN Raise(Raw("JWTClaimsError"))
    ELSE Return(tok.claims)

----------------------------------------------------------------------------
(* verify_decode_jwt *)

\* for key in jwks['keys']: if key['kid'] == kid: rsa_key = {...}
\* rsa_key starts as the empty dict, <<>>
RECURSIVE ScanKeys(_, _, _, _)
ScanKeys(keys, kid, i, found) ==
    IF i > Len(keys) THEN found
    ELSE ScanKeys(keys, kid, i + 1,
                  IF keys[i].kid = kid
                  THEN [kty |-> keys[i].kty, kid |-> keys[i].kid,
                        use |-> keys[i].use, n |-> keys[i].n, e |-> keys[i].e]
                  ELSE found)

\* mutant: the scan stops at the first match
RECURSIVE ScanKeysFirst(_, _, _, _)
ScanKeysFirst(keys, kid, i, found) ==
    IF i > Len(keys) \/ found # <<>> THEN found
    ELSE ScanKeysFirst(keys, kid, i + 1,
                       IF keys[i].kid = kid THEN keys[i] ELSE found)

select_key_first(keys, kid) == ScanKeysFirst(keys, kid, 1, <<>>)

select_key(keys, kid) == ScanKeys(keys, kid, 1, <<>>)

\* mutant: an expired token is reported as any other decoding failure
decode_token_no_expiry(tok, key) ==
    LET r == jwt_decode(tok, key, ALGORITHMS, API_AUDIENCE, Issuer) IN
    IF r.kind = "return" THEN r
    ELSE IF r.exc.kind = "JWTClaimsError"
    THEN Raise(AuthError("invalid_claims",
            "Incorrect claims. Please, check the audience and issuer.", 401))
    ELSE Raise(AuthError("invalid_header",
            "Unable to parse authentication token.", 400))

\* mutant: a decoding failure is swallowed and the claims are returned as read
decode_token_unverified(tok, key) == Return(tok.claims)

\* the try block around jwt.decode
decode_token(tok, key) ==
    LET r == jwt_decode(tok, key, ALGORITHMS, API_AUDIENCE, Issuer) IN
    IF r.kind = "return" THEN r
    ELSE IF r.exc.kind = "ExpiredSignatureError"
    THEN Raise(AuthError("token_expired", "Token expired.", 401))
    ELSE IF r.exc.kind = "JWTClaimsError"
    THEN Raise(AuthError("invalid_claims",
            "Incorrect claims. Please, check the audience and issuer.", 401))
    ELSE Raise(AuthError("invalid_header",
            "Unable to parse authentication token.", 400))

\* The key verify_decode_jwt reaches jwt.decode with: <<>> when it raises
\* before the scan or the scan finds none.
selected_key(tok, fetched) ==
    IF fetched.kind = "raise" THEN <<>>
    ELSE LET h == get_unverified_header(tok) IN
         IF h.kind = "raise" \/ "kid" \notin DOMAIN h.value THEN <<>>
         ELSE select_key(fetched.value.keys, h.value.kid)

\* mutant: the header is not checked for a key id before it is read
verify_decode_jwt_no_kid_check(tok, fetched) ==
    IF fetched.kind = "raise" THEN fetched
    ELSE LET unverified_header == get_unverified_header(tok) IN
         IF unverified_header.kind = "raise" THEN unverified_header
         ELSE IF "kid" \notin DOMAIN unverified_header.value
         THEN Raise(Raw("KeyError"))
         ELSE LET key == select_key(fetched.value.keys, unverified_header.value.kid) IN
              IF key # <<>>
              THEN decode_token(tok, key)
              ELSE Raise(AuthError("invalid_header",
                      "Unable to find the appropriate key.", 400))

\* verify_decode_jwt(token), given what the key-set fetch gives
verify_decode_jwt(tok, fetched) ==
    IF fetched.kind = "raise" THEN fetched          \* urlopen / json.loads
    ELSE LET unverified_header == get_unverified_header(tok) IN
         IF unverified_header.kind = "raise" THEN unverified_header
         ELSE IF "kid" \notin DOMAIN unverified_header.value
         THEN Raise(AuthError("invalid_header", "Authorization malformed.", 401))
         ELSE LET key == select_key(fetched.value.keys, unverified_header.value.kid) IN
              IF key # <<>>
              THEN decode_token(tok, key)
              ELSE Raise(AuthError("invalid_header",
                      "Unable to find the appropriate key.", 400))

----------------------------------------------------------------------------
(* requires_auth(permission) wrapping a route of api.py, and the responses *)
(* Flask makes from what the wrapper raises                                *)

\* abort(401)
HTTPException(code) == [kind |-> "HTTPException", code |-> code]

\* mutant: only exceptions that are not AuthError are turned into abort(401)
except_clause_keeps_AuthError(error) ==
    IF error.kind = "AuthError" THEN error ELSE HTTPException(401)

\* mutant: no except clause
except_clause_reraises(error) == error

\* except Exception as error: print(error); abort(401)
except_clause(error) == HTTPException(401)

\* mutant: what check_permissions raises is dropped
wrapper_next_ignores_permissions(stage, r) ==
    IF stage = "extract" THEN (IF r.kind = "return" THEN "verify" ELSE "except")
    ELSE IF stage = "verify" THEN (IF r.kind = "return" THEN "permissions" ELSE "except")
    ELSE "operation"

\* Where the wrapper goes after a stage gave r: extraction and verification
\* are inside the try block, check_permissions is after it.
wrapper_next(stage, r) ==
    IF stage = "extract" THEN (IF r.kind = "return" THEN "verify" ELSE "except")
    ELSE IF stage = "verify" THEN (IF r.kind = "return" THEN "permissions" ELSE "except")
    ELSE (IF r.kind = "return" THEN "operation" ELSE "flask")

\* @app.errorhandler(AuthError)
auth_error(exception) ==
    [status |-> exception.status_code,
     body |-> [success |-> FALSE,
               error |-> exception.status_code,
               code |-> exception.error.code,
               message |-> exception.error.description]]

\* the codes api.py registers an error handler for
HandledCodes == {400, 404, 422, 500}

\* What Flask does with an exception leaving the view.  An AuthError goes to
\* auth_error.  An HTTPException whose code has no registered handler is the
\* response itself.  For the codes of HandledCodes, and for any other
\* exception (which Flask hands to the handler for 500), the registered
\* handler is called with the exception, takes no parameter and raises
\* TypeError: no response is made.
flask_response(e) ==
    IF e.kind = "AuthError" THEN auth_error(e)
    ELSE IF e.kind = "HTTPException" /\ e.code \notin HandledCodes
    THEN [status |-> e.code, body |-> None]
    ELSE Raise(Raw("TypeError"))

\* what Drink.query...all() gives retrieve_drinks_detail, as drink.long() data
DrinkLists == {<<>>, <<"drink-1">>, <<"drink-1", "drink-2">>}

\* jsonify({'success': True, 'drinks': drinks})
DrinksResponse(drinks) ==
    [status |-> 200, body |-> [success |-> TRUE, drinks |-> drinks]]

\* What the guarded view does once invoked.  retrieve_drinks_detail returns
\* the drinks it read or ends in abort(422).  create_drink reads the request
\* body before its try block: request.get_json() raises BadRequest (400) for
\* a body that is not valid JSON and UnsupportedMediaType (415) for another
\* content type, and body.get raises AttributeError when there is no JSON
\* object; then it returns the one drink it created or ends in abort(422).
ViewOutcomes(perm) ==
    IF perm = "post:drinks"
    THEN {Return(DrinksResponse(<<"drink-1">>)),
          Raise(HTTPException(400)), Raise(HTTPException(415)),
          Raise(Raw("AttributeError")), Raise(HTTPException(422))}
    ELSE {Return(DrinksResponse(ds)) : ds \in DrinkLists}
            \cup {Raise(HTTPException(422))}

\* the two guarded routes of api.py
RoutePermissions == {"get:drinks-detail", "post:drinks"}

W_Bearer == <<"B", "e", "a", "r", "e", "r">>
W_BEARER == <<"B", "E", "A", "R", "E", "R">>
W_Basic == <<"B", "a", "s", "i", "c">>
W_abc == <<"a", "b", "c">>
W_xyz == <<"x", "y", "z">>
SP == <<" ">>
TAB == <<"\t">>
FF == <<"\f">>
NBSP == <<" ">>

\* Authorization headers of the requests to a guarded route
GateHeaders ==
    {Absent, Str(<<>>), Str(SP), Str(NBSP \o TAB), Str(W_Bearer), Str(W_Basic \o SP \o W_abc),
     Str(W_Bearer \o SP \o W_abc), Str(BEARER \o FF \o SP \o W_xyz),
     Str(W_Bearer \o SP \o W_abc \o SP \o W_xyz)}

Init ==
    /\ header \in GateHeaders
    /\ permission \in RoutePermissions
    /\ jwt \in (IF get_token_auth_header(header).kind = "return" THEN Jwts ELSE {None})
    /\ pc = "extract"
    /\ token = None
    /\ jwks = None
    /\ rsa_key = <<>>
    /\ payload = None
    /\ exc = None
    /\ raised = None
    /\ invoked = None
    /\ response = None
    /\ stages = <<>>

\* token = get_token_auth_header()
GetTokenAuthHeader ==
    /\ pc = "extract"
    /\ LET r == get_token_auth_header(header) IN
       /\ pc' = wrapper_next("extract", r)
       /\ token' = (IF r.kind = "return" THEN r.value ELSE token)
       /\ exc' = (IF r.kind = "raise" THEN r.exc ELSE exc)
       /\ raised' = (IF r.kind = "raise" THEN r.exc ELSE raised)
    /\ stages' = Append(stages, "extract")
    /\ UNCHANGED <<header, permission, jwt, jwks, rsa_key, payload, invoked, response>>

\* payload = verify_decode_jwt(token); the key set is fetched inside
VerifyDecodeJwt ==
    /\ pc = "verify"
    /\ \E fetched \in FetchOutcomes :
          LET r == verify_decode_jwt(jwt, fetched) IN
          /\ pc' = wrapper_next("verify", r)
          /\ jwks' = (IF fetched.kind = "return" THEN fetched.value ELSE jwks)
          /\ rsa_key' = selected_key(jwt, fetched)
          /\ payload' = (IF r.kind = "return" THEN r.value ELSE payload)
          /\ exc' = (IF r.kind = "raise" THEN r.exc ELSE exc)
          /\ raised' = (IF r.kind = "raise" THEN r.exc ELSE raised)
    /\ stages' = Append(stages, "verify")
    /\ UNCHANGED <<header, permission, jwt, token, invoked, response>>

\* except Exception as error
Except ==
    /\ pc = "except"
    /\ exc' = except_clause(exc)
    /\ pc' = "flask"
    /\ UNCHANGED <<header, permission, jwt, token, jwks, rsa_key, payload,
                   raised, invoked, response, stages>>

\* check_permissions(permission, payload)
CheckPermissions ==
    /\ pc = "permissions"
    /\ LET r == check_permissions(permission, payload) IN
       /\ pc' = wrapper_next("permissions", r)
       /\ exc' = (IF r.kind = "raise" THEN r.exc ELSE exc)
       /\ raised' = (IF r.kind = "raise" THEN r.exc ELSE raised)
    /\ stages' = Append(stages, "permissions")
    /\ UNCHANGED <<header, permission, jwt, token, jwks, rsa_key, payload,
                   invoked, response>>

\* return function_to_decorate(payload, *args, **kwargs): the view is
\* invoked with the payload and what it returns or raises is the wrapper's.
\* (raised keeps the exception of a gate stage; the view's goes to exc.)
Operation ==
    /\ pc = "operation"
    /\ invoked' = [args |-> <<payload>>]
    /\ \E r \in ViewOutcomes(permission) :
          /\ response' = (IF r.kind = "return" THEN r.value ELSE response)
          /\ exc' = (IF r.kind = "raise" THEN r.exc ELSE exc)
          /\ pc' = (IF r.kind = "return" THEN "done" ELSE "flask")
    /\ stages' = Append(stages, "operation")
    /\ UNCHANGED <<header, permission, jwt, token, jwks, rsa_key, payload, raised>>

\* the exception leaves the view and Flask answers
Respond ==
    /\ pc = "flask"
    /\ response' = flask_response(exc)
    /\ pc' = "done"
    /\ UNCHANGED <<header, permission, jwt, token, jwks, rsa_key, payload,
                   exc, raised, invoked, stages>>

Next ==
    \/ GetTokenAuthHeader
    \/ VerifyDecodeJwt
    \/ Except
    \/ CheckPermissions
    \/ Operation
    \/ Respond

Spec == Init /\ [][Next]_vars

----------------------------------------------------------------------------
(* get_token_auth_header alone, over assembled header values *)

Pieces == {SP, TAB, FF, NBSP, W_Bearer, BEARER, W_BEARER, W_abc}

RECURSIVE Concat(_)
Concat(ps) == IF ps = <<>> THEN <<>> ELSE Head(ps) \o Concat(Tail(ps))

HeaderValues == {Absent} \cup {Str(Concat(ps)) : ps \in SeqsUpTo(Pieces, MaxPieces)}

InitHeader ==
    /\ header \in HeaderValues
    /\ permission \in RoutePermissions
    /\ jwt = None
    /\ pc = "extract"
    /\ token = None
    /\ jwks = None
    /\ rsa_key = <<>>
    /\ payload = None
    /\ exc = None
    /\ raised = None
    /\ invoked = None
    /\ response = None
    /\ stages = <<>>

SpecHeader == InitHeader /\ [][GetTokenAuthHeader]_vars

----------------------------------------------------------------------------
(* Properties *)

StageOrder == <<"extract", "verify", "permissions", "operation">>

IsPrefix(p, q) == Len(p) <= Len(q) /\ \A i \in DOMAIN p : p[i] = q[i]

Ran(stage) == \E i \in DOMAIN stages : stages[i] = stage

IsAuthError(e, code, status) ==
    e.kind = "AuthError" /\ e.error.code = code /\ e.status_code = status

\* the response carries this status and this error code
Answers(status, code) ==
    /\ "status" \in DOMAIN response
    /\ response.status = status
    /\ response.body # None
    /\ "code" \in DOMAIN response.body
    /\ response.body.code = code

\* indices of the fetched keys whose kid is the token's
Matching == {i \in DOMAIN jwks.keys : jwks.keys[i].kid = jwt.header.kid}
Last(S) == CHOOSE i \in S : \A j \in S : j <= i

\* C1: a request to a guarded endpoint without an Authorization header is
\* answered with status 401 and the code 'authorization_header_missing', the
\* AuthError of get_token_auth_header reaching the handler unchanged.
C1_MissingHeaderAnswered ==
    (header = Absent /\ pc = "done")
        => /\ Answers(401, "authorization_header_missing")
           /\ exc = raised

\* C2: when the verified payload has a permissions claim, a required
\* permission that is not listed is rejected with AuthError 403 'unauthorized'
\* and the operation is not invoked; a listed one has the operation invoked
\* with the payload exactly as verify_decode_jwt returned it.
C2_PermissionDecision ==
    (Ran("permissions") /\ PERMISSIONS \in DOMAIN payload)
        => IF \A i \in DOMAIN payload[PERMISSIONS] : payload[PERMISSIONS][i] # permission
           THEN /\ IsAuthError(raised, "unauthorized", 403)
                /\ exc = raised
                /\ invoked = None
                /\ ~Ran("operation")
                /\ pc = "done" => Answers(403, "unauthorized")
           ELSE /\ raised = None
                /\ pc \in {"operation", "flask", "done"}
                /\ payload = jwt.claims
                /\ pc # "operation" => /\ Ran("operation")
                                       /\ invoked = [args |-> <<payload>>]

C2_Rejected ==
    /\ pc = "done"
    /\ payload # None
    /\ PERMISSIONS \in DOMAIN payload
    /\ permission = "post:drinks"
    /\ payload[PERMISSIONS] = <<"get:drinks-detail">>
    /\ Answers(403, "unauthorized")

\* C3: the protected operation is invoked only after get_token_auth_header
\* returned the token, verify_decode_jwt verified its signature and its
\* expiry, audience and issuer with a key of the fetched key set and returned
\* the payload, and check_permissions accepted that payload; the argument is
\* the verified payload.
C3_OnlyVerifiedPayload ==
    invoked # None
        => /\ stages = StageOrder
           /\ raised = None
           /\ header # Absent
           /\ Len(split(header.value)) = 2
           /\ token = split(header.value)[2]
           /\ jwks # None
           /\ jwt.wellformed
           /\ "kid" \in DOMAIN jwt.header
           /\ \E i \in DOMAIN jwks.keys : jwks.keys[i] = rsa_key
           /\ rsa_key.kid = jwt.header.kid
           /\ jwt.header.alg = "RS256"
           /\ jwt.signer = rsa_key.n
           /\ jwt.claims.exp = "future"
           /\ jwt.claims.aud = "coffe-shop"
           /\ jwt.claims.iss = "https://brunogarcia.eu.auth0.com/"
           /\ invoked.args = <<jwt.claims>>
           /\ PERMISSIONS \in DOMAIN jwt.claims
           /\ \E i \in DOMAIN jwt.claims[PERMISSIONS] :
                 jwt.claims[PERMISSIONS][i] = permission

C3_Invoked ==
    /\ invoked # None
    /\ pc = "done"
    /\ Len(jwks.keys) = 2

\* C4: the stages run in the order extraction, verification, permission
\* check, operation, and once a stage has failed no later stage runs: no
\* key-set fetch, no payload, no invocation.
C4_FirstFailureStops ==
    [][/\ IsPrefix(stages', StageOrder)
       /\ raised # None => /\ stages' = stages
                           /\ jwks' = jwks
                           /\ payload' = payload
                           /\ invoked' = invoked
                           /\ invoked = None]_vars

C4_StoppedAfterExtraction ==
    /\ pc = "done"
    /\ raised # None
    /\ stages = <<"extract">>
    /\ jwks = None

\* C5: get_token_auth_header returns the second whitespace-separated token
\* exactly when the header splits into two tokens of which the first
\* lowercases to 'bearer', and raises an AuthError with status 401 for every
\* other header value, never another kind of error.
C5_ExtractionTotal ==
    Ran("extract")
        => IF /\ header # Absent
              /\ Len(split(header.value)) = 2
              /\ lower(split(header.value)[1]) = BEARER
           THEN raised = None /\ token = split(header.value)[2]
           ELSE raised.kind = "AuthError" /\ raised.status_code = 401

\* C6: every structurally valid token whose expiry is in the past is rejected
\* with AuthError 401 'token_expired', whether or not its signature is valid.
\* (Stated for the tokens verification reaches a key for: the key set
\* fetched, a key with the token's kid in it, not-before not in the future.)
C6_ExpiredWhateverSignature ==
    (/\ Ran("verify")
     /\ jwt.wellformed
     /\ jwt.claims.exp = "past"
     /\ jwks # None
     /\ "kid" \in DOMAIN jwt.header
     /\ Matching # {}
     /\ jwt.claims.nbf # "future")
        => IsAuthError(raised, "token_expired", 401)

\* C6, amended: a token whose expiry is in the past is rejected with AuthError
\* 401 'token_expired' when the key set was fetched, holds a key with the
\* token's kid, the signature verifies with the selected key under RS256 and
\* the not-before claim is not in the future; audience and issuer do not
\* matter.
C6_ExpiredVerifiedSignature ==
    (/\ Ran("verify")
     /\ jwt.wellformed
     /\ jwt.claims.exp = "past"
     /\ jwks # None
     /\ "kid" \in DOMAIN jwt.header
     /\ Matching # {}
     /\ jwt.header.alg = "RS256"
     /\ jwt.signer = jwks.keys[Last(Matching)].n
     /\ jwt.claims.nbf # "future")
        => IsAuthError(raised, "token_expired", 401)

C6_ExpiredWrongAudience ==
    /\ Ran("verify")
    /\ jwt.wellformed
    /\ jwt.claims.exp = "past"
    /\ jwt.claims.aud # "coffe-shop"
    /\ IsAuthError(raised, "token_expired", 401)

\* C7: for every token (the key set fetched) verify_decode_jwt returns a
\* payload or raises an AuthError, and a failure other than expiry, audience
\* or issuer of a token that names a key, a malformed token and a bad
\* signature among them, is AuthError 'invalid_header' with status 400.
C7_VerifyRaisesOnlyAuthError ==
    (Ran("verify") /\ jwks # None)
        => \/ raised = None /\ payload # None
           \/ /\ raised.kind = "AuthError"
              /\ \/ raised.error.code \in {"token_expired", "invalid_claims"}
                 \/ "kid" \notin DOMAIN jwt.header
                 \/ IsAuthError(raised, "invalid_header", 400)

\* C8: when extraction or verification fails with an exception that is not
\* an AuthError, the wrapper turns it into abort(401): the answer is a 401
\* without an error code and the operation is not invoked.
C8_FailClosed ==
    (raised # None /\ raised.kind # "AuthError" /\ pc \in {"flask", "done"})
        => /\ exc = [kind |-> "HTTPException", code |-> 401]
           /\ invoked = None
           /\ ~Ran("operation")
           /\ pc = "done" => response = [status |-> 401, body |-> None]

C8_FetchFaultAnswered ==
    /\ pc = "done"
    /\ raised.kind = "URLError"
    /\ response = [status |-> 401, body |-> None]

\* C9: for a token carrying a kid, the key jwt.decode is attempted with is
\* the last entry of the fetched sequence whose kid equals the token's; when
\* no entry has it, jwt.decode is not attempted and the result is AuthError
\* 'invalid_header' with status 400.
C9_LastMatchingKey ==
    (Ran("verify") /\ jwks # None /\ jwt.wellformed /\ "kid" \in DOMAIN jwt.header)
        => IF Matching = {}
           THEN /\ rsa_key = <<>>
                /\ payload = None
                /\ IsAuthError(raised, "invalid_header", 400)
                /\ raised.error.description = "Unable to find the appropriate key."
           ELSE /\ rsa_key = jwks.keys[Last(Matching)]
                /\ rsa_key.kid = jwt.header.kid
                /\ payload # None => jwt.signer = jwks.keys[Last(Matching)].n
                /\ jwt.signer # jwks.keys[Last(Matching)].n
                      => IsAuthError(raised, "invalid_header", 400)

C9_DuplicateKid ==
    /\ Ran("verify")
    /\ payload # None
    /\ Len(jwks.keys) = 2
    /\ jwks.keys[1].kid = jwks.keys[2].kid
    /\ jwks.keys[1].n # jwks.keys[2].n

\* C10: a token whose header has no kid is rejected with AuthError
\* 'invalid_header', status 401, whatever the key set holds and whether or
\* not the key-set fetch succeeds.
C10_NoKidWhateverFetch ==
    (Ran("verify") /\ jwt.wellformed /\ "kid" \notin DOMAIN jwt.header)
        => IsAuthError(raised, "invalid_header", 401)

\* C10, amended: the key set is fetched before the header is decoded; when
\* the fetch succeeds a token whose header has no kid is rejected with
\* AuthError 'invalid_header', status 401, whatever the key set holds, and
\* when the fetch fails the fault of the fetch is raised instead.
C10_NoKidAfterFetch ==
    (Ran("verify") /\ jwt.wellformed /\ "kid" \notin DOMAIN jwt.header)
        => IF jwks # None
           THEN /\ IsAuthError(raised, "invalid_header", 401)
                /\ rsa_key = <<>>
           ELSE raised.kind \in {"URLError", "JSONDecodeError"}

C10_NoKidWithKeys ==
    /\ Ran("verify")
    /\ jwt.wellformed
    /\ "kid" \notin DOMAIN jwt.header
    /\ jwks # None
    /\ Len(jwks.keys) = 2
    /\ raised.status_code = 401

====
